---- MODULE Spec2Model ----
(***************************************************************************)
(* midi2json: process() runs get_notes over the first track of a MIDI file *)
(* and hands the result to create_json.  get_notes folds the track's       *)
(* events left to right, keeping a 32-bit tick clock (cur_time), one       *)
(* pending note (cur_note) and the list of finished notes (notes).         *)
(*                                                                         *)
(* Numbers.  A u32 is the pair <<hi, lo>> of its 16-bit halves, so that    *)
(* the whole 32-bit range and its overflow are representable.  A time in   *)
(* seconds (an f64 in the source) is modelled by the exact quotient it     *)
(* approximates, as the mixed number whole + num/den in lowest terms;      *)
(* floating-point rounding is not modelled.                                *)
(***************************************************************************)
EXTENDS Integers, Sequences, FiniteSets, TLC

VARIABLES bpm, track, cur_time, cur_note, notes, pc, panic_msg, returned, output

vars == <<bpm, track, cur_time, cur_note, notes, pc, panic_msg, returned, output>>

(* ------------------------------ bounds --------------------------------- *)

\* Longest sequence of ordinary events the track holds (after the lead-in).
MaxLen == 4

\* Number of maximal-delta rest events a track's lead-in consists of.
NumPads == 16

(* --------------------------- machine numbers --------------------------- *)

\* Half of a u32: cur_time is <<hi, lo>> with value hi * Limb + lo.
Limb == 65536

\* Largest delta time of an event: midly's u28.
MaxDelta == 268435455

U32(n) == <<n \div Limb, n % Limb>>

\* cur_time + delta without a width: the high half may exceed Limb - 1.
WideAdd(t, delta) ==
    LET lo == t[2] + (delta % Limb)
    IN  <<t[1] + (delta \div Limb) + (lo \div Limb), lo % Limb>>

\* Whether cur_time + delta leaves the u32 range.
Overflows(t, delta) == WideAdd(t, delta)[1] >= Limb

\* cur_time + delta as a build without overflow checks computes it.
WrappingAdd(t, delta) ==
    LET w == WideAdd(t, delta) IN <<w[1] % Limb, w[2]>>

(* ------------------------------- seconds ------------------------------- *)

RECURSIVE GCD(_, _)
GCD(a, b) == IF b = 0 THEN a ELSE GCD(b, a % b)

\* The magic number 1.6 of get_time_seconds, as KNum / KDen.
KNum == 16
KDen == 10

\* ticks_per_sec with 1.5 for 1.6.
TicksPerSecMutK(b) == LET g == GCD(b * 15, KDen) IN <<(b * 15) \div g, KDen \div g>>
\* ticks_per_sec = bpm * 1.6, as a fraction <<n, d>> in lowest terms.
TicksPerSec(b) == LET g == GCD(b * KNum, KDen) IN <<(b * KNum) \div g, KDen \div g>>

\* ticks / ticks_per_sec, by long division of the two halves of ticks.
get_time_seconds(ticks, b) ==
    LET tps == TicksPerSec(b)
        h == ticks[1] * tps[2]
        m == (h % tps[1]) * Limb + ticks[2] * tps[2]
        r == m % tps[1]
        g == GCD(r, tps[1])
    IN  [whole |-> (h \div tps[1]) * Limb + (m \div tps[1]),
         num |-> r \div g,
         den |-> tps[1] \div g]

\* The f64 literal 0.0.
Zero == [whole |-> 0, num |-> 0, den |-> 1]

\* a <= b on seconds.
SecLeq(a, b) ==
    \/ a.whole < b.whole
    \/ a.whole = b.whole /\ a.num * b.den <= b.num * a.den

(* -------------------------------- input -------------------------------- *)

Bpms == {60, 120}
Pitches == {60, 64}
Deltas == {0, 48}

\* One track event: its delta time and its kind.  "Controller" stands for
\* the MIDI messages other than NoteOn/NoteOff, "Meta" for the events that
\* are not MIDI messages.  key is the note's key (0 where there is none).
Event(k, d, p) == [kind |-> k, delta |-> d, key |-> p]

Events ==
    {Event("NoteOn", d, p) : d \in Deltas, p \in Pitches}
    \cup {Event("NoteOff", d, 60) : d \in Deltas}
    \cup {Event(k, d, 0) : k \in {"Controller", "Meta"}, d \in Deltas}

\* A rest of the longest delta time the file format can carry.
Pad == Event("Meta", MaxDelta, 0)

\* The tracks fed to get_notes: up to MaxLen ordinary events, alone or after
\* a lead-in of exactly NumPads rests.  LeadIn is the number of rests the
\* events read so far start with, and CanRead(ev) says that ev may come next.
LeadIn ==
    IF track = <<>> \/ track[1] # Pad THEN 0
    ELSE IF track[Len(track)] = Pad THEN Len(track)
    ELSE NumPads

CanRead(ev) ==
    IF ev = Pad
    THEN LeadIn = Len(track) /\ LeadIn < NumPads
    ELSE LeadIn \in {0, NumPads} /\ Len(track) - LeadIn < MaxLen

(* ------------------------------ get_notes ------------------------------ *)

None == <<>>
Some(x) == <<x>>
unwrap(opt) == opt[1]

Note(p, ts, te) == [pitch_value |-> p, time_start |-> ts, time_end |-> te]

\* The locals of get_notes as one value.
Locals(t, c, n) == [cur_time |-> t, cur_note |-> c, notes |-> n]

\* NoteOn arm that keeps a note that is already pending.
NoteOnArmKeepsPending(l, ev, b) ==
    IF l.cur_note # None THEN l
    ELSE [l EXCEPT !.cur_note =
            Some(Note(ev.key, get_time_seconds(l.cur_time, b), Zero))]

\* The NoteOn arm: a fresh pending note replaces whatever was pending.
NoteOnArm(l, ev, b) ==
    [l EXCEPT !.cur_note =
        Some(Note(ev.key, get_time_seconds(l.cur_time, b), Zero))]

\* NoteOff arm that takes the key of the NoteOff message.
NoteOffArmOwnKey(l, ev, b) ==
    LET partial_note == l.cur_note[1]
    IN  [l EXCEPT !.notes = Append(l.notes,
            Note(ev.key, partial_note.time_start,
                 get_time_seconds(l.cur_time, b)))]

\* The NoteOff arm: copy the pending note out, stamp its end, push it.
\* cur_note is an Option of a Copy type: unwrap() leaves it in place.
NoteOffArm(l, ev, b) ==
    LET partial_note == unwrap(l.cur_note)
        updated_note == Note(partial_note.pitch_value,
                             partial_note.time_start,
                             get_time_seconds(l.cur_time, b))
    IN  [l EXCEPT !.notes = Append(l.notes, updated_note)]

\* Loop body whose NoteOff arm stamps the start time anew.
LoopBodyRestampsStart(l, ev, b) ==
    LET l1 == [l EXCEPT !.cur_time = WrappingAdd(l.cur_time, ev.delta)]
    IN  CASE ev.kind = "NoteOn" -> NoteOnArm(l1, ev, b)
          [] ev.kind = "NoteOff" ->
                [l1 EXCEPT !.notes = Append(l1.notes,
                    Note(l1.cur_note[1].pitch_value,
                         get_time_seconds(l1.cur_time, b),
                         get_time_seconds(l1.cur_time, b)))]
          [] OTHER -> l1

\* One iteration of the loop that does not panic; the addition wraps.
LoopBody(l, ev, b) ==
    LET l1 == [l EXCEPT !.cur_time = WrappingAdd(l.cur_time, ev.delta)]
    IN  CASE ev.kind = "NoteOn" -> NoteOnArm(l1, ev, b)
          [] ev.kind = "NoteOff" -> NoteOffArm(l1, ev, b)
          [] OTHER -> l1

\* cur_note.unwrap() on None.
UnwrapPanics(l, ev) == ev.kind = "NoteOff" /\ l.cur_note = None

Init ==
    /\ bpm \in Bpms
    /\ track = <<>>
    /\ cur_time = U32(0)
    /\ cur_note = None
    /\ notes = <<>>
    /\ pc = "get_notes"
    /\ panic_msg = "none"
    /\ returned = None
    /\ output = None

\* The loop reads ev and runs its body to the end.
Iterate(ev) ==
    /\ pc = "get_notes"
    /\ CanRead(ev)
    /\ ~UnwrapPanics(Locals(cur_time, cur_note, notes), ev)
    /\ LET l == LoopBody(Locals(cur_time, cur_note, notes), ev, bpm)
       IN  /\ cur_time' = l.cur_time
           /\ cur_note' = l.cur_note
           /\ notes' = l.notes
    /\ track' = Append(track, ev)
    /\ UNCHANGED <<bpm, pc, panic_msg, returned, output>>

HandleNoteOn(ev) == ev.kind = "NoteOn" /\ Iterate(ev)

HandleNoteOff(ev) == ev.kind = "NoteOff" /\ Iterate(ev)

HandleOtherMessage(ev) == ev.kind = "Controller" /\ Iterate(ev)

HandleNonMidi(ev) == ev.kind = "Meta" /\ Iterate(ev)

\* NoteOff with nothing pending that is skipped instead of panicking.
NoteOffSkipped(ev) ==
    /\ pc = "get_notes"
    /\ CanRead(ev)
    /\ ev.kind = "NoteOff" /\ cur_note = None
    /\ track' = Append(track, ev)
    /\ cur_time' = WrappingAdd(cur_time, ev.delta)
    /\ UNCHANGED <<bpm, cur_note, notes, pc, panic_msg, returned, output>>

\* A NoteOff with nothing pending: unwrap() panics and the process dies.
NoteOffPanic(ev) ==
    /\ pc = "get_notes"
    /\ CanRead(ev)
    /\ UnwrapPanics(Locals(cur_time, cur_note, notes), ev)
    /\ track' = Append(track, ev)
    /\ cur_time' = WrappingAdd(cur_time, ev.delta)
    /\ pc' = "panicked"
    /\ panic_msg' = "unwrap on None"
    /\ UNCHANGED <<bpm, cur_note, notes, returned, output>>

\* cur_time + delta in a build with overflow checks: the addition panics.
\* (Without them it wraps, which is what LoopBody computes.)
AddOverflowPanic(ev) ==
    /\ pc = "get_notes"
    /\ CanRead(ev)
    /\ Overflows(cur_time, ev.delta)
    /\ track' = Append(track, ev)
    /\ pc' = "panicked"
    /\ panic_msg' = "add with overflow"
    /\ UNCHANGED <<bpm, cur_time, cur_note, notes, returned, output>>

\* The track is exhausted: get_notes returns notes to process.
Return ==
    /\ pc = "get_notes"
    /\ returned' = Some(notes)
    /\ pc' = "create_json"
    /\ UNCHANGED <<bpm, track, cur_time, cur_note, notes, panic_msg, output>>

\* process passes the returned list to create_json, which writes it to
\* output/notes.json.  fs::write fails when the output directory is missing
\* or not writable; expect() then panics and nothing is written.
create_json ==
    /\ pc = "create_json"
    /\ \/ /\ output' = Some([notes |-> unwrap(returned)])
          /\ pc' = "done"
          /\ UNCHANGED panic_msg
       \/ /\ pc' = "panicked"
          /\ panic_msg' = "Failed to save event frames"
          /\ UNCHANGED output
    /\ UNCHANGED <<bpm, track, cur_time, cur_note, notes, returned>>

Next ==
    \/ \E ev \in Events \cup {Pad} :
          \/ HandleNoteOn(ev)
          \/ HandleNoteOff(ev)
          \/ HandleOtherMessage(ev)
          \/ HandleNonMidi(ev)
          \/ NoteOffPanic(ev)
          \/ AddOverflowPanic(ev)
    \/ Return
    \/ create_json

Spec == Init /\ [][Next]_vars

(* ------------------------ reading the input back ----------------------- *)

Last(s) == s[Len(s)]
Front(s) == SubSeq(s, 1, Len(s) - 1)

\* The positions of the events of kind k in tr, in order.
RECURSIVE IndicesOf(_, _)
IndicesOf(tr, k) ==
    IF tr = <<>> THEN <<>>
    ELSE IF Last(tr).kind = k
         THEN Append(IndicesOf(Front(tr), k), Len(tr))
         ELSE IndicesOf(Front(tr), k)

\* The kinds of the NoteOn/NoteOff events of tr, in order.
RECURSIVE NoteKinds(_)
NoteKinds(tr) ==
    IF tr = <<>> THEN <<>>
    ELSE IF Last(tr).kind \in {"NoteOn", "NoteOff"}
         THEN Append(NoteKinds(Front(tr)), Last(tr).kind)
         ELSE NoteKinds(Front(tr))

\* The position of the last NoteOn before position j (0 if there is none).
RECURSIVE LastOnBefore(_, _)
LastOnBefore(tr, j) ==
    IF j <= 1 THEN 0
    ELSE IF tr[j - 1].kind = "NoteOn" THEN j - 1 ELSE LastOnBefore(tr, j - 1)

\* The position of the last NoteOff before position j (0 if there is none).
RECURSIVE LastOffBefore(_, _)
LastOffBefore(tr, j) ==
    IF j <= 1 THEN 0
    ELSE IF tr[j - 1].kind = "NoteOff" THEN j - 1 ELSE LastOffBefore(tr, j - 1)

\* The 32-bit clock after the first k events of tr, recomputed from tr.
RECURSIVE TicksAt(_, _)
TicksAt(tr, k) ==
    IF k = 0 THEN U32(0) ELSE WrappingAdd(TicksAt(tr, k - 1), tr[k].delta)

\* The sum of the delta times of tr, with no width.
RECURSIVE ExactTicks(_)
ExactTicks(tr) ==
    IF tr = <<>> THEN U32(0) ELSE WideAdd(ExactTicks(Front(tr)), Last(tr).delta)

\* The locals of get_notes after a run over tr on which unwrap() never fails.
RECURSIVE GetNotesRun(_, _)
GetNotesRun(tr, b) ==
    IF tr = <<>> THEN Locals(U32(0), None, <<>>)
    ELSE LoopBody(GetNotesRun(Front(tr), b), Last(tr), b)

\* get_notes has returned its list to process (whatever create_json does
\* with it afterwards); get_notes itself has panicked.
Completed == returned # None
GetNotesPanicked == pc = "panicked" /\ returned = None

\* s is exactly ticks * 5 / (b * 8): with D = b * 8 and the remainder
\* r = s.num * D / s.den, ticks * 5 = s.whole * D + r and 0 <= r < D.
\* Both sides are compared as <<high, low>> pairs in base Limb.
Carry(h, l) == <<h + (l \div Limb), l % Limb>>
IsExactQuotient(s, ticks, b) ==
    LET D == b * 8
        r == (s.num * D) \div s.den
    IN  /\ s.num < s.den
        /\ (s.num * D) % s.den = 0
        /\ GCD(s.num, s.den) = 1
        /\ Carry((s.whole \div Limb) * D, (s.whole % Limb) * D + r)
             = Carry(ticks[1] * 5, ticks[2] * 5)

\* The loop has just stamped a time: the last event read was a NoteOn or a
\* NoteOff.  Stamp is the value get_time_seconds(cur_time, bpm) returned.
JustStamped ==
    /\ pc = "get_notes"
    /\ track # <<>>
    /\ Last(track).kind \in {"NoteOn", "NoteOff"}
Stamp ==
    IF Last(track).kind = "NoteOn"
    THEN unwrap(cur_note).time_start
    ELSE Last(notes).time_end

(* ------------------------------- claims -------------------------------- *)

\* C1: after a NoteOff has finalized a note nothing is pending any more
\* (cur_note = None), so a NoteOff with no NoteOn between it and the previous
\* NoteOff finds nothing pending and aborts the run instead of emitting a
\* second note from the same NoteOn.
C1_PendingClearedAfterNoteOff ==
    /\ (JustStamped /\ Last(track).kind = "NoteOff") => cur_note = None
    /\ \A j \in 1..Len(track) :
          (/\ track[j].kind = "NoteOff"
           /\ LastOnBefore(track, j) <= LastOffBefore(track, j))
          => GetNotesPanicked

\* C2: a NoteOff read before any NoteOn aborts the run at that NoteOff:
\* get_notes returns nothing, create_json never runs and nothing further
\* can happen.
C2_NoteOffBeforeAnyNoteOnAborts ==
    \A j \in 1..Len(track) :
        (track[j].kind = "NoteOff" /\ LastOnBefore(track, j) = 0)
        => /\ j = Len(track)
           /\ pc = "panicked"
           /\ returned = None
           /\ output = None
           /\ ~ENABLED Next

C2_Witness ==
    /\ Len(track) >= 2
    /\ Last(track).kind = "NoteOff"
    /\ LastOnBefore(track, Len(track)) = 0
    /\ panic_msg = "unwrap on None"

\* The NoteOn/NoteOff events of tr are NoteOn, NoteOff, NoteOn, NoteOff, ...
\* in complete pairs.
IsAlternatingPairs(tr) ==
    LET ks == NoteKinds(tr) IN
    /\ Len(ks) % 2 = 0
    /\ \A i \in 1..Len(ks) :
          ks[i] = (IF i % 2 = 1 THEN "NoteOn" ELSE "NoteOff")

\* C3: on a track of strictly alternating NoteOn/NoteOff pairs (other events
\* may be interleaved) get_notes returns as many notes as there are NoteOffs,
\* and the i-th note has the key of the i-th NoteOn.
C3_AlternatingPairsCountAndPitch ==
    (Completed /\ IsAlternatingPairs(track)) =>
        LET ons == IndicesOf(track, "NoteOn")
            offs == IndicesOf(track, "NoteOff")
            out == unwrap(returned)
        IN  /\ Len(out) = Len(offs)
            /\ \A i \in 1..Len(out) : out[i].pitch_value = track[ons[i]].key

C3_Witness ==
    /\ Completed
    /\ IsAlternatingPairs(track)
    /\ Len(unwrap(returned)) = 2
    /\ unwrap(returned)[1].pitch_value # unwrap(returned)[2].pitch_value

\* C4: on a track whose note events are NoteOn(p1), NoteOn(p2), NoteOff,
\* get_notes returns exactly one note, with the key and the start time of
\* the second NoteOn; the first pending note is dropped without an error.
C4_SecondNoteOnWins ==
    (Completed /\ NoteKinds(track) = <<"NoteOn", "NoteOn", "NoteOff">>) =>
        LET second == IndicesOf(track, "NoteOn")[2]
            out == unwrap(returned)
        IN  /\ Len(out) = 1
            /\ out[1].pitch_value = track[second].key
            /\ out[1].time_start =
                   get_time_seconds(TicksAt(track, second), bpm)

C4_Witness ==
    /\ Completed
    /\ NoteKinds(track) = <<"NoteOn", "NoteOn", "NoteOff">>
    /\ LET ons == IndicesOf(track, "NoteOn")
       IN  /\ track[ons[1]].key # track[ons[2]].key
           /\ TicksAt(track, ons[1]) # TicksAt(track, ons[2])

\* C5: a track that ends with a NoteOn is no error and the NoteOn adds no
\* note: once the trailing NoteOn has been read get_notes has not aborted,
\* and the list it returns equals the list of the run over the track without
\* that last event's message.
C5_TrailingNoteOnDropped ==
    (track # <<>> /\ Last(track).kind = "NoteOn") =>
        /\ ~GetNotesPanicked
        /\ Completed =>
              unwrap(returned) = GetNotesRun(Front(track), bpm).notes

\* C6: get_time_seconds(ticks, bpm) is exactly ticks * 5 / (bpm * 8), that
\* is ticks / (bpm * 1.6); it is 0 at 0 ticks, and seconds(48, 120) = 1/4,
\* seconds(192, 120) = 1, seconds(48, 60) = 1/2, seconds(96, 60) = 1.
C6_SecondsFormula ==
    JustStamped =>
        /\ IsExactQuotient(Stamp, cur_time, bpm)
        /\ cur_time = U32(0) => Stamp = Zero
        /\ (bpm = 120 /\ cur_time = U32(48))
              => Stamp = [whole |-> 0, num |-> 1, den |-> 4]
        /\ (bpm = 120 /\ cur_time = U32(192))
              => Stamp = [whole |-> 1, num |-> 0, den |-> 1]
        /\ (bpm = 60 /\ cur_time = U32(48))
              => Stamp = [whole |-> 0, num |-> 1, den |-> 2]
        /\ (bpm = 60 /\ cur_time = U32(96))
              => Stamp = [whole |-> 1, num |-> 0, den |-> 1]

C6_Witness ==
    /\ JustStamped
    /\ bpm = 120
    /\ cur_time = U32(192)
    /\ Stamp.whole = 1

\* C7: while get_notes runs, cur_time is the exact sum of the delta times of
\* the events read so far, whatever their kinds; an event that is neither a
\* NoteOn nor a NoteOff leaves the pending note and the list as they were.
C7_ClockIsExactSum ==
    pc = "get_notes" =>
        /\ cur_time = ExactTicks(track)
        /\ (track # <<>> /\ Last(track).kind \notin {"NoteOn", "NoteOff"})
              => LET before == GetNotesRun(Front(track), bpm)
                 IN  cur_note = before.cur_note /\ notes = before.notes

\* C8: every note returned has the key and the start time stamped by the
\* most recent NoteOn before the NoteOff that emitted it, and as its end time
\* the seconds of the clock at that NoteOff.
C8_NotesCarryLatestNoteOn ==
    Completed =>
        LET offs == IndicesOf(track, "NoteOff")
            out == unwrap(returned)
        IN  /\ Len(out) = Len(offs)
            /\ \A i \in 1..Len(out) :
                  LET on == LastOnBefore(track, offs[i])
                  IN  /\ on > 0
                      /\ out[i].pitch_value = track[on].key
                      /\ out[i].time_start =
                             get_time_seconds(TicksAt(track, on), bpm)
                      /\ out[i].time_end =
                             get_time_seconds(TicksAt(track, offs[i]), bpm)

C8_Witness ==
    /\ Completed
    /\ Len(unwrap(returned)) = 2
    /\ NoteKinds(track) = <<"NoteOn", "NoteOff", "NoteOn", "NoteOff">>
    /\ unwrap(returned)[1] # unwrap(returned)[2]
    /\ unwrap(returned)[2].time_start # unwrap(returned)[2].time_end

\* C9: the list holds the finished notes in the order of their NoteOffs, and
\* so the end times of the list never decrease from first to last.
C9_EndTimesNonDecreasing ==
    ~GetNotesPanicked =>
        LET offs == IndicesOf(track, "NoteOff")
        IN  /\ Len(notes) = Len(offs)
            /\ \A i \in 1..Len(notes) :
                  notes[i].time_end =
                      get_time_seconds(TicksAt(track, offs[i]), bpm)
            /\ \A i \in 1..Len(notes) : \A j \in i..Len(notes) :
                  SecLeq(notes[i].time_end, notes[j].time_end)

\* C10: in every state of get_notes every note of the list has
\* time_end >= time_start.
C10_EndNotBeforeStart ==
    \A i \in 1..Len(notes) : SecLeq(notes[i].time_start, notes[i].time_end)

====
